---- MODULE Spec2Model ----
(***************************************************************************)
(* Model of src/src/app.py: a Flask service over one PostgreSQL table.     *)
(*                                                                         *)
(* The process runs __main__ (init_db, then serve or exit), and a set of   *)
(* worker threads each run one request handler at a time.  A handler that  *)
(* touches the store is split at its store calls (connect, execute,        *)
(* commit), so that requests interleave and the store may fail between any *)
(* two calls.  The store is PostgreSQL as the schema of init_db declares   *)
(* it: SERIAL id, NOT NULL name, UNIQUE NOT NULL email, created_at         *)
(* defaulted to the transaction's timestamp.                               *)
(***************************************************************************)
EXTENDS Integers, Sequences, FiniteSets, TLC

VARIABLES
    mainPc,              \* position of __main__ : init_db's steps, then serving / exited
    mode,                \* sys.argv[1] == 'migrate' or the normal startup
    mainConn,            \* the connection init_db holds: "none", "open", "closed"
    DATABASE_AVAILABLE,  \* the module global of app.py:31
    flagWrites,          \* number of assignments to DATABASE_AVAILABLE so far
    storeUp,             \* environment: does PostgreSQL answer right now
    schema,              \* the users table exists (CREATE TABLE committed)
    table,               \* committed rows of users
    nextId,              \* the SERIAL sequence of users.id
    clock,               \* CURRENT_TIMESTAMP of the store
    nreq,                \* requests received so far
    req                  \* per worker: the request it handles and its response

vars == <<mainPc, mode, mainConn, DATABASE_AVAILABLE, flagWrites, storeUp,
          schema, table, nextId, clock, nreq, req>>

\* Bound of the model: total number of requests the service receives in a run.
MaxRequests == 3

\* Worker threads of the WSGI server, each handling one request at a time.
Workers == {"w1", "w2"}

\* JSON values of a body's keys: a string, null, or the key is absent.
MISSING == "<missing>"
NULL == "<null>"

\* request.get_json(): None, or an object with some of the keys name, email.
Bodies ==
    { [json |-> "none",   name |-> MISSING, email |-> MISSING],
      [json |-> "object", name |-> MISSING, email |-> MISSING],
      [json |-> "object", name |-> "Ann",   email |-> MISSING],
      [json |-> "object", name |-> MISSING, email |-> "a@x.com"],
      [json |-> "object", name |-> "Ann",   email |-> "a@x.com"],
      [json |-> "object", name |-> "Bob",   email |-> "a@x.com"],
      [json |-> "object", name |-> "Ann",   email |-> "b@x.com"],
      [json |-> "object", name |-> NULL,    email |-> "b@x.com"],
      [json |-> "object", name |-> "",      email |-> "b@x.com"],
      [json |-> "object", name |-> "Ann",   email |-> ""] }

NoBody == [json |-> "none", name |-> MISSING, email |-> MISSING]

\* A worker with no request, and the fields of a request in progress.
Idle ==
    [kind |-> "none", pc |-> "idle", data |-> NoBody, conn |-> "none",
     opened |-> 0, pending |-> {}, status |-> 0, health |-> "", database |-> "",
     message |-> "", error |-> FALSE, user_id |-> 0, users |-> <<>>]

Init ==
    /\ mainPc = "init_connect"
    /\ mode \in {"serve", "migrate"}
    /\ mainConn = "none"
    /\ DATABASE_AVAILABLE = FALSE
    /\ flagWrites = 0
    /\ storeUp \in BOOLEAN
    /\ schema = FALSE
    /\ table = {}
    /\ nextId = 1
    /\ clock = 0
    /\ nreq = 0
    /\ req = [w \in Workers |-> Idle]

----------------------------------------------------------------------------
(* Environment: the store becomes unreachable, or reachable again.         *)

StoreFails ==
    /\ storeUp
    /\ storeUp' = FALSE
    /\ UNCHANGED <<mainPc, mode, mainConn, DATABASE_AVAILABLE, flagWrites,
                   schema, table, nextId, clock, nreq, req>>

StoreRecovers ==
    /\ ~storeUp
    /\ storeUp' = TRUE
    /\ UNCHANGED <<mainPc, mode, mainConn, DATABASE_AVAILABLE, flagWrites,
                   schema, table, nextId, clock, nreq, req>>

----------------------------------------------------------------------------
(* The store, as psycopg2 and the schema of init_db present it.            *)

\* psycopg2.connect(DATABASE_URL, ...) returns a connection iff the store
\* answers; otherwise get_db_connection logs and re-raises.
get_db_connection == storeUp

\* A statement or a commit on an open connection succeeds iff the store
\* still answers; otherwise psycopg2 raises OperationalError.
StatementRuns == storeUp

\* name VARCHAR(100) NOT NULL, email VARCHAR(100) ... NOT NULL
NotNullViolation(name, email) == name = NULL \/ email = NULL

\* Mutant of UniqueViolation: the email column declared without UNIQUE.
NoUniqueViolation(email) == FALSE

\* email VARCHAR(100) UNIQUE, against the committed rows
UniqueViolation(email) == \E u \in table : u.email = email

\* The insert raises psycopg2.IntegrityError: a NotNullViolation or a
\* UniqueViolation, both subclasses of it.
IntegrityError(name, email) ==
    NotNullViolation(name, email) \/ UniqueViolation(email)

\* A row another transaction has inserted and not yet committed holds the
\* unique index entry: a second insert of that email waits for it.
WaitsForUniqueIndex(w, email) ==
    \E v \in Workers \ {w} : \E p \in req[v].pending : p.email = email

\* Mutant of OrderByCreatedAtDesc: ORDER BY created_at without DESC.
OrderByCreatedAtAsc(rows) ==
    { s \in [1..Cardinality(rows) -> rows] :
        /\ \A i, j \in 1..Cardinality(rows) : i # j => s[i] # s[j]
        /\ \A i, j \in 1..Cardinality(rows) :
               i < j => s[i].created_at <= s[j].created_at }

\* SELECT * FROM users ORDER BY created_at DESC: every listing of the rows
\* in which created_at never rises (rows of equal created_at in any order).
OrderByCreatedAtDesc(rows) ==
    { s \in [1..Cardinality(rows) -> rows] :
        /\ \A i, j \in 1..Cardinality(rows) : i # j => s[i] # s[j]
        /\ \A i, j \in 1..Cardinality(rows) :
               i < j => s[i].created_at >= s[j].created_at }

----------------------------------------------------------------------------
(* __main__ and init_db                                                    *)

\* Where __main__ goes when init_db returns: 'migrate' prints and exits,
\* the normal startup runs app.run.
AfterInit == IF mode = "migrate" THEN "exited" ELSE "serving"

\* Mutant of FlagOnFailure: the except clause of init_db leaves the flag set.
FlagOnFailureTrue == TRUE

\* The values init_db assigns to DATABASE_AVAILABLE.
FlagOnSuccess == TRUE
FlagOnFailure == FALSE

\* init_db's except clause: the flag is set, the failure logged and swallowed.
InitFailed ==
    /\ DATABASE_AVAILABLE' = FlagOnFailure
    /\ flagWrites' = flagWrites + 1
    /\ mainPc' = AfterInit

\* conn = get_db_connection()
InitConnect ==
    /\ mainPc = "init_connect"
    /\ IF get_db_connection
          THEN /\ mainConn' = "open"
               /\ mainPc' = "init_execute"
               /\ UNCHANGED <<DATABASE_AVAILABLE, flagWrites>>
          ELSE /\ InitFailed
               /\ UNCHANGED mainConn
    /\ UNCHANGED <<mode, storeUp, schema, table, nextId, clock, nreq, req>>

\* cur.execute("CREATE TABLE IF NOT EXISTS users ...")
InitExecute ==
    /\ mainPc = "init_execute"
    /\ IF StatementRuns
          THEN /\ mainPc' = "init_commit"
               /\ UNCHANGED <<DATABASE_AVAILABLE, flagWrites>>
          ELSE InitFailed
    /\ UNCHANGED <<mode, mainConn, storeUp, schema, table, nextId, clock, nreq, req>>

\* conn.commit(); conn.close(); DATABASE_AVAILABLE = True
InitCommit ==
    /\ mainPc = "init_commit"
    /\ IF StatementRuns
          THEN /\ schema' = TRUE
               /\ mainConn' = "closed"
               /\ DATABASE_AVAILABLE' = FlagOnSuccess
               /\ flagWrites' = flagWrites + 1
               /\ mainPc' = AfterInit
          ELSE /\ InitFailed
               /\ UNCHANGED <<schema, mainConn>>
    /\ UNCHANGED <<mode, storeUp, table, nextId, clock, nreq, req>>

init_db == InitConnect \/ InitExecute \/ InitCommit

----------------------------------------------------------------------------
(* Request handlers                                                        *)

\* A request of the given kind and body, as it enters its handler.
Request(kind, data) == [Idle EXCEPT !.kind = kind, !.pc = "start", !.data = data]

\* return jsonify(...), status
Respond(r, status, health, database, message, error) ==
    [r EXCEPT !.pc = "done", !.status = status, !.health = health,
              !.database = database, !.message = message, !.error = error]

\* Mutant of DemoMode: the handlers go to the store whatever the flag says.
DemoModeNever == FALSE

\* The handlers' guard `if not DATABASE_AVAILABLE`.
DemoMode == ~DATABASE_AVAILABLE

\* A worker takes the next request off the socket; app.run is serving.
Accepts(w) ==
    /\ mainPc = "serving"
    /\ req[w].pc \in {"idle", "done"}
    /\ nreq < MaxRequests
    /\ nreq' = nreq + 1

\* GET / : always 200, the page shows the flag's status text.
index(w) ==
    /\ Accepts(w)
    /\ req' = [req EXCEPT ![w] =
          Respond(Request("index", NoBody), 200, "",
                  IF DATABASE_AVAILABLE THEN "Connected"
                                        ELSE "Not Available (Demo Mode)",
                  "html", FALSE)]
    /\ UNCHANGED <<mainPc, mode, mainConn, DATABASE_AVAILABLE, flagWrites,
                   storeUp, schema, table, nextId, clock>>

\* conn = get_db_connection() in a handler: the connection, or the handler's
\* except clause answers (onError is that answer).
Connect(w, kind, onError) ==
    /\ req[w].kind = kind
    /\ req[w].pc = "connect"
    /\ req' = [req EXCEPT ![w] =
          IF get_db_connection
             THEN [@ EXCEPT !.conn = "open", !.opened = @ + 1, !.pc = "execute"]
             ELSE onError]
    /\ UNCHANGED <<mainPc, mode, mainConn, DATABASE_AVAILABLE, flagWrites,
                   storeUp, schema, table, nextId, clock, nreq>>

\* GET /health, up to the demo-mode return.
health_check(w) ==
    /\ Accepts(w)
    /\ req' = [req EXCEPT ![w] =
          IF DemoMode
             THEN Respond(Request("health", NoBody), 200, "healthy",
                          "not_available", "demo_without_database", FALSE)
             ELSE [Request("health", NoBody) EXCEPT !.pc = "connect"]]
    /\ UNCHANGED <<mainPc, mode, mainConn, DATABASE_AVAILABLE, flagWrites,
                   storeUp, schema, table, nextId, clock>>

\* health_check's except clause: "healthy app status but database error", 200.
HealthError(r) == Respond(r, 200, "healthy", "error", "", TRUE)

HealthConnect(w) == Connect(w, "health", HealthError(req[w]))

\* cur.execute('SELECT 1'); conn.close(); return connected, 200
HealthExecute(w) ==
    /\ req[w].kind = "health"
    /\ req[w].pc = "execute"
    /\ req' = [req EXCEPT ![w] =
          IF StatementRuns
             THEN Respond([@ EXCEPT !.conn = "closed"], 200, "healthy",
                          "connected", "", FALSE)
             ELSE HealthError(@)]
    /\ UNCHANGED <<mainPc, mode, mainConn, DATABASE_AVAILABLE, flagWrites,
                   storeUp, schema, table, nextId, clock, nreq>>

\* GET /users, up to the demo-mode return.
get_users(w) ==
    /\ Accepts(w)
    /\ req' = [req EXCEPT ![w] =
          IF DemoMode
             THEN Respond(Request("get_users", NoBody), 200, "", "",
                          "Database not available - running in demo mode", FALSE)
             ELSE [Request("get_users", NoBody) EXCEPT !.pc = "connect"]]
    /\ UNCHANGED <<mainPc, mode, mainConn, DATABASE_AVAILABLE, flagWrites,
                   storeUp, schema, table, nextId, clock>>

\* get_users' except clause: 500 with str(e).
GetUsersError(r) == Respond(r, 500, "", "", "", TRUE)

GetUsersConnect(w) == Connect(w, "get_users", GetUsersError(req[w]))

\* cur.execute('SELECT ... ORDER BY created_at DESC'); users = cur.fetchall();
\* conn.close(); return {"users": users}, 200
GetUsersExecute(w) ==
    /\ req[w].kind = "get_users"
    /\ req[w].pc = "execute"
    /\ IF StatementRuns
          THEN \E s \in OrderByCreatedAtDesc(table) :
                  req' = [req EXCEPT ![w] =
                     Respond([@ EXCEPT !.conn = "closed", !.users = s],
                             200, "", "", "", FALSE)]
          ELSE req' = [req EXCEPT ![w] = GetUsersError(@)]
    /\ UNCHANGED <<mainPc, mode, mainConn, DATABASE_AVAILABLE, flagWrites,
                   storeUp, schema, table, nextId, clock, nreq>>

\* `not data or 'name' not in data or 'email' not in data`: data is None or
\* an empty object, or a key is absent (a key holding null is present).
ValidationFails(data) ==
    \/ data.json = "none"
    \/ (data.name = MISSING /\ data.email = MISSING)
    \/ data.name = MISSING
    \/ data.email = MISSING

\* POST /users, up to the validation return.
create_user(w, data) ==
    /\ Accepts(w)
    /\ req' = [req EXCEPT ![w] =
          IF DemoMode
             THEN Respond(Request("create_user", data), 200, "", "",
                          "Database not available - user creation disabled in demo mode",
                          FALSE)
             ELSE IF ValidationFails(data)
                     THEN Respond(Request("create_user", data), 400, "", "",
                                  "Name and email are required", TRUE)
                     ELSE [Request("create_user", data) EXCEPT !.pc = "connect"]]
    /\ UNCHANGED <<mainPc, mode, mainConn, DATABASE_AVAILABLE, flagWrites,
                   storeUp, schema, table, nextId, clock>>

\* create_user's `except psycopg2.IntegrityError`: 409.
CreateUserConflict(r) == Respond(r, 409, "", "", "Email already exists", TRUE)

\* create_user's `except Exception`: 500 with str(e).
CreateUserError(r) == Respond(r, 500, "", "", "", TRUE)

CreateUserConnect(w) == Connect(w, "create_user", CreateUserError(req[w]))

\* The row the INSERT builds: id from the sequence, created_at defaulted.
NewRow(data, id, now) ==
    [id |-> id, name |-> data.name, email |-> data.email, created_at |-> now]

\* cur.execute('INSERT INTO users (name, email) VALUES (%s, %s) RETURNING id');
\* user_id = cur.fetchone()['id'].  The sequence advances whether or not the
\* row passes its constraints; the store's clock may have advanced.
CreateUserExecute(w) ==
    /\ req[w].kind = "create_user"
    /\ req[w].pc = "execute"
    /\ IF ~StatementRuns
          THEN /\ req' = [req EXCEPT ![w] = CreateUserError(@)]
               /\ UNCHANGED <<nextId, clock>>
          ELSE \E tick \in {0, 1} :
                 /\ clock' = clock + tick
                 /\ nextId' = nextId + 1
                 /\ IF IntegrityError(req[w].data.name, req[w].data.email)
                       THEN req' = [req EXCEPT ![w] = CreateUserConflict(@)]
                       ELSE /\ ~WaitsForUniqueIndex(w, req[w].data.email)
                            /\ req' = [req EXCEPT ![w] =
                                  [@ EXCEPT !.pc = "commit",
                                            !.user_id = nextId,
                                            !.pending =
                                               {NewRow(req[w].data, nextId, clock')}]]
    /\ UNCHANGED <<mainPc, mode, mainConn, DATABASE_AVAILABLE, flagWrites,
                   storeUp, schema, table, nreq>>

\* Mutant of Committed: the handler answers without conn.commit().
CommitLost(r) == table

\* The rows of users once the transaction of r has committed.
Committed(r) == table \cup r.pending

\* Mutant of RolledBack: an autocommit connection, whose INSERT is in the
\* table although conn.commit() raised.
RolledBackKept(r) == table \cup r.pending

\* The rows of users once conn.commit() of the transaction of r has raised.
RolledBack(r) == table

\* conn.commit(); conn.close(); return {"id": user_id, ...}, 201.
\* A failed commit leaves nothing of the transaction in the table.
CreateUserCommit(w) ==
    /\ req[w].kind = "create_user"
    /\ req[w].pc = "commit"
    /\ IF StatementRuns
          THEN /\ table' = Committed(req[w])
               /\ req' = [req EXCEPT ![w] =
                     Respond([@ EXCEPT !.conn = "closed", !.pending = {}],
                             201, "", "", "User created successfully", FALSE)]
          ELSE /\ req' = [req EXCEPT ![w] =
                     CreateUserError([@ EXCEPT !.pending = {}])]
               /\ table' = RolledBack(req[w])
    /\ UNCHANGED <<mainPc, mode, mainConn, DATABASE_AVAILABLE, flagWrites,
                   storeUp, schema, nextId, clock, nreq>>

----------------------------------------------------------------------------

Next ==
    \/ StoreFails
    \/ StoreRecovers
    \/ InitConnect
    \/ InitExecute
    \/ InitCommit
    \/ \E w \in Workers :
          \/ index(w)
          \/ health_check(w)
          \/ HealthConnect(w)
          \/ HealthExecute(w)
          \/ get_users(w)
          \/ GetUsersConnect(w)
          \/ GetUsersExecute(w)
          \/ \E data \in Bodies : create_user(w, data)
          \/ CreateUserConnect(w)
          \/ CreateUserExecute(w)
          \/ CreateUserCommit(w)

Spec == Init /\ [][Next]_vars

----------------------------------------------------------------------------
(* Vocabulary of the properties                                            *)

\* Worker w has answered a request of the given kind.
Answered(w, kind) == req[w].kind = kind /\ req[w].pc = "done"

\* Worker w takes the step of its handler that leaves position pc.
Leaves(w, kind, pc) ==
    req[w].kind = kind /\ req[w].pc = pc /\ req'[w] # req[w]

\* The rows a GET /users response lists.
Listed(r) == { r.users[i] : i \in 1..Len(r.users) }

\* The body carries a name and an email that are strings.
ValidBody(data) ==
    /\ ~ValidationFails(data)
    /\ data.name # NULL
    /\ data.email # NULL

----------------------------------------------------------------------------
(* C1: every POST /users whose body is absent or lacks name or email is    *)
(* answered 400 with the error naming the required fields, whatever the    *)
(* availability flag, without touching the store.                          *)
C1_MissingFieldsAre400 ==
    \A w \in Workers :
        (Answered(w, "create_user") /\ ValidationFails(req[w].data)) =>
            /\ req[w].status = 400
            /\ req[w].message = "Name and email are required"
            /\ req[w].opened = 0
            /\ req[w].user_id = 0

(* C2: no two persisted users share an email; an insert of an email that a *)
(* persisted user holds is answered 409 "Email already exists" and leaves  *)
(* the table as it was; a created user is the one row with its email.      *)
C2_EmailsAreUnique ==
    /\ [](\A u, v \in table : u.email = v.email => u = v)
    /\ [](\A w \in Workers :
            (Answered(w, "create_user") /\ req[w].status = 201) =>
                Cardinality({u \in table : u.email = req[w].data.email}) = 1)
    /\ [][\A w \in Workers :
            ( /\ Leaves(w, "create_user", "execute")
              /\ StatementRuns
              /\ UniqueViolation(req[w].data.email) ) =>
                /\ req'[w].pc = "done"
                /\ req'[w].status = 409
                /\ req'[w].message = "Email already exists"
                /\ table' = table]_vars

C2_Witness ==
    \E w \in Workers :
        /\ Answered(w, "create_user")
        /\ req[w].status = 409
        /\ ValidBody(req[w].data)
        /\ Cardinality({u \in table : u.email = req[w].data.email}) = 1

(* C3: with the flag set, a POST /users with a valid name and an email no  *)
(* persisted user holds, on a store that answers, is answered 201 with a   *)
(* positive id and the confirmation; the row stays in the table, and every *)
(* GET /users listing made after the 201 holds that id, name and email.    *)
C3_CreatedThenListed ==
    /\ [](\A w \in Workers :
            (Answered(w, "create_user") /\ req[w].status = 201) =>
                /\ req[w].user_id >= 1
                /\ req[w].message = "User created successfully"
                /\ \E u \in table : /\ u.id = req[w].user_id
                                    /\ u.name = req[w].data.name
                                    /\ u.email = req[w].data.email)
    /\ [][\A w \in Workers :
            ( /\ Leaves(w, "create_user", "execute")
              /\ StatementRuns
              /\ ValidBody(req[w].data)
              /\ ~UniqueViolation(req[w].data.email) ) =>
                /\ req'[w].pc = "commit"
                /\ req'[w].user_id >= 1]_vars
    /\ [][\A w \in Workers :
            (Leaves(w, "create_user", "commit") /\ StatementRuns) =>
                /\ req'[w].pc = "done"
                /\ req'[w].status = 201
                /\ req'[w].user_id = req[w].user_id]_vars
    /\ [][table \subseteq table']_vars
    /\ [][\A w, v \in Workers :
            ( /\ Leaves(w, "get_users", "execute")
              /\ req'[w].status = 200
              /\ Answered(v, "create_user")
              /\ req[v].status = 201 ) =>
                \E u \in Listed(req'[w]) : /\ u.id = req[v].user_id
                                           /\ u.name = req[v].data.name
                                           /\ u.email = req[v].data.email]_vars

C3_Witness ==
    \E w, v \in Workers :
        /\ Answered(v, "create_user")
        /\ req[v].status = 201
        /\ Answered(w, "get_users")
        /\ req[w].status = 200
        /\ \E u \in Listed(req[w]) : /\ u.id = req[v].user_id
                                     /\ u.name = req[v].data.name
                                     /\ u.email = req[v].data.email

C5_ProbeFailureIs500 ==
    \A w \in Workers :
        (Answered(w, "health") /\ DATABASE_AVAILABLE /\ req[w].opened = 0) =>
            /\ req[w].status = 500
            /\ req[w].health = "unhealthy"

(* C6: whenever the store answers at the moment GET /health is answered,   *)
(* whatever happened at startup, the response is 200 with status "healthy" *)
(* and database "connected".                                               *)
C6_ProbeSuccessIsConnected ==
    [][\A w \in Workers :
         ( /\ req'[w] # req[w]
           /\ req'[w].kind = "health"
           /\ req'[w].pc = "done"
           /\ storeUp ) =>
             /\ req'[w].status = 200
             /\ req'[w].health = "healthy"
             /\ req'[w].database = "connected"]_vars

(* C7: with the flag set and a body that passes validation, POST /users is *)
(* answered 409 only when the insert failed because a persisted user holds *)
(* the email; any other failure of the store is answered 500.              *)
C7_ConflictOnlyOnDuplicate ==
    \A w \in Workers :
        ( /\ Answered(w, "create_user")
          /\ DATABASE_AVAILABLE
          /\ ~ValidationFails(req[w].data) ) =>
            /\ req[w].status \in {201, 409, 500}
            /\ req[w].status = 409 => UniqueViolation(req[w].data.email)

(* C8: the flag starts false, is assigned exactly once, by init_db, before *)
(* any request is accepted (true iff the schema was committed), and no     *)
(* later step changes it.                                                  *)
Started == mainPc \in {"serving", "exited"}

C8_FlagSetOnceAtStartup ==
    /\ (~DATABASE_AVAILABLE /\ flagWrites = 0)
    /\ [](~Started => /\ flagWrites = 0
                      /\ ~DATABASE_AVAILABLE
                      /\ \A w \in Workers : req[w].pc = "idle")
    /\ [](Started => /\ flagWrites = 1
                     /\ DATABASE_AVAILABLE = (schema /\ mainConn = "closed"))
    /\ [][Started => /\ DATABASE_AVAILABLE' = DATABASE_AVAILABLE
                     /\ flagWrites' = flagWrites]_vars
    /\ [][(DATABASE_AVAILABLE' # DATABASE_AVAILABLE \/ flagWrites' # flagWrites)
             => (~Started /\ Started' /\ req' = req)]_vars

C8_Witness ==
    /\ mainPc = "serving"
    /\ DATABASE_AVAILABLE
    /\ flagWrites = 1
    /\ \E w \in Workers : Answered(w, "create_user") /\ req[w].status = 201

(* C9: with the flag set, GET /users answers 200 with exactly the persisted*)
(* rows (the empty list when there are none), created_at never rising down *)
(* the list; a store failure during the request answers 500 with the error;*)
(* no step of the handler changes the table.                               *)
C9_ListIsTheTableNewestFirst ==
    /\ [][\A w \in Workers :
            Leaves(w, "get_users", "execute") =>
                /\ table' = table
                /\ req'[w].pc = "done"
                /\ IF StatementRuns
                      THEN /\ req'[w].status = 200
                           /\ Listed(req'[w]) = table
                           /\ Len(req'[w].users) = Cardinality(table)
                           /\ \A i, j \in 1..Len(req'[w].users) :
                                 i < j => req'[w].users[i].created_at
                                             >= req'[w].users[j].created_at
                      ELSE /\ req'[w].status = 500
                           /\ req'[w].error
                           /\ req'[w].users = <<>>]_vars
    /\ [][\A w \in Workers :
            Leaves(w, "get_users", "connect") =>
                /\ table' = table
                /\ IF get_db_connection
                      THEN req'[w].pc = "execute"
                      ELSE /\ req'[w].pc = "done"
                           /\ req'[w].status = 500
                           /\ req'[w].error]_vars
    /\ [](\A w \in Workers :
            (req[w].kind = "get_users" /\ DATABASE_AVAILABLE /\ table = {}
               /\ req[w].pc = "done" /\ req[w].status = 200) =>
                  req[w].users = <<>>)

C9_Witness ==
    \E w \in Workers :
        /\ Answered(w, "get_users")
        /\ req[w].status = 200
        /\ Len(req[w].users) = 2
        /\ req[w].users[1].created_at > req[w].users[2].created_at
        /\ req[w].users[1].id > req[w].users[2].id

(* C10: every connection a handler, or init_db, acquires is released       *)
(* before it returns, on the failure paths too; each request acquires at   *)
(* most one connection.                                                    *)
C10_ConnectionsReleased ==
    /\ \A w \in Workers :
          /\ req[w].opened <= 1
          /\ req[w].pc = "done" => req[w].conn \in {"none", "closed"}
    /\ Started => mainConn \in {"none", "closed"}

(* C11: every persisted user has a non-empty name and a non-empty email: a *)
(* POST /users whose name or email is the empty string, or null, never     *)
(* results in a persisted row.                                             *)
C11_PersistedFieldsNonEmpty ==
    \A u \in table : /\ u.name \notin {"", NULL, MISSING}
                     /\ u.email \notin {"", NULL, MISSING}

(* C12: POST /users answers 201 only once the insert is committed: when    *)
(* the insert or the commit fails the answer is not 201 and the row never  *)
(* enters the table or a GET /users listing; a row enters the table only   *)
(* in the step that answers its creating request 201.                      *)
C12_CreatedOnlyAfterCommit ==
    /\ [][\A w \in Workers :
            ( /\ Leaves(w, "create_user", "execute")
              /\ \/ ~StatementRuns
                 \/ IntegrityError(req[w].data.name, req[w].data.email) ) =>
                /\ req'[w].pc = "done"
                /\ req'[w].status \in {409, 500}
                /\ req'[w].pending = {}
                /\ table' = table]_vars
    /\ [][\A w \in Workers :
            (Leaves(w, "create_user", "commit") /\ ~StatementRuns) =>
                /\ req'[w].pc = "done"
                /\ req'[w].status = 500
                /\ req'[w].pending = {}
                /\ table' = table]_vars
    /\ [](\A w \in Workers :
            (Answered(w, "create_user") /\ req[w].status # 201) =>
                ~ \E u \in table : u.id = req[w].user_id)
    /\ [](\A w \in Workers :
            req[w].status = 201 => /\ req[w].kind = "create_user"
                                   /\ req[w].conn = "closed"
                                   /\ req[w].pending = {})
    /\ [][\A u \in table' \ table :
            \E w \in Workers :
                /\ Leaves(w, "create_user", "commit")
                /\ req[w].pending = {u}
                /\ req'[w].pc = "done"
                /\ req'[w].status = 201
                /\ req'[w].user_id = u.id]_vars
    /\ [][\A w \in Workers :
            Leaves(w, "get_users", "execute") =>
                /\ Listed(req'[w]) \subseteq table
                /\ \A v \in Workers :
                      req[v].pending \cap Listed(req'[w]) = {}]_vars

C12_Witness ==
    \E w, v \in Workers :
        /\ Answered(w, "create_user")
        /\ req[w].status = 500
        /\ req[w].user_id >= 1
        /\ Answered(v, "get_users")
        /\ req[v].status = 200
        /\ Len(req[v].users) = 1
        /\ \A u \in Listed(req[v]) : u.id # req[w].user_id

====
